---- MODULE Spec2Model ----
(***************************************************************************)
(* Model of sketch.js: the WebSocket connection with its reconnection      *)
(* timer (setupWebSocket), the change filter and sender (sendData), the    *)
(* formatter (formatDataForTD), the detection interval (setup) and the     *)
(* publish pass (draw).                                                    *)
(*                                                                         *)
(* The browser runs every handler to completion on one thread, so each     *)
(* handler is one action.  The transport, the wall clock (Date.now) and    *)
(* the face detector are the environment: their outcomes are chosen        *)
(* nondeterministically.  The variable env fixes, for a run, which         *)
(* transport, scene, detector and clock the program meets; the             *)
(* specifications differ in it only.                                       *)
(***************************************************************************)
EXTENDS Integers, Sequences, FiniteSets, TLC

(* ------------------------------ bounds -------------------------------- *)
\* number of WebSocket objects ever constructed (setupWebSocket calls)
MaxSockets == 3
\* Date.now() readings range over 0..MaxTime
MaxTime == 1
\* number of records in one detection result (one more where a scene has two faces)
MaxFaces == 1
\* number of detection invocations awaiting their result (one more with a slow detector)
MaxInflight == 1
\* in the refusal scenario the transport refuses the first k attempts, k in 0..MaxRefused
MaxRefused == 1

(* --------------------------- program values --------------------------- *)
\* WebSocket.readyState
CONNECTING == 0
OPEN == 1
CLOSING == 2
CLOSED == 3

\* HTMLMediaElement.readyState of the capture: 0 (HAVE_NOTHING) .. 4 (HAVE_ENOUGH_DATA)
HAVE_NOTHING == 0
HAVE_ENOUGH_DATA == 4
VideoStates == HAVE_NOTHING..HAVE_ENOUGH_DATA

\* the value of a variable or property that was never assigned
Undef == -1
\* lastSentData = null; a JSON text is never empty
Null == << >>
Times == 0..MaxTime

(* A detection record of face-api: null, or an object with an optional    *)
(* alignedRect (rect = "none"), whose box may be missing (rect = "nobox").*)
(* Probabilities are in percent.                                          *)
Face(a) ==
  [null |-> FALSE, rect |-> "box", x |-> 10, y |-> 10, width |-> 50, height |-> 50,
   gender |-> 1, genderProbability |-> 92, age |-> a, expressions |-> 80]

NullRec == [Face(30) EXCEPT !.null = TRUE]
NoRect == [Face(30) EXCEPT !.rect = "none"]
NoBox == [Face(30) EXCEPT !.rect = "nobox"]
NoGender == [Face(30) EXCEPT !.gender = Undef, !.genderProbability = Undef]

\* two face records that differ in one field, the age
Records == {Face(30), Face(31)}

\* the malformed records
Malformed == {NullRec, NoRect, NoBox, NoGender}

VARIABLES
  env,                \* the environment of the run: transport, scene, detector, clock
  phase,              \* setup(): "loading", "running", or "failed" (returned early)
  sockets,            \* every WebSocket object constructed so far, in order
  socket,             \* the global socket: index into sockets, 0 = undefined
  reconnectInterval,  \* the global handle: 0 = undefined, else an interval id
  timers,             \* ids of the intervals that are active (created, not cleared)
  lastSentData,       \* the global lastSentData: Null or a JSON text
  detections,         \* the global detections list
  inflight,           \* detection invocations awaiting their result
  superseded,         \* how many of them started before the one whose result is stored
  tick,               \* the most recent detection tick, when the run records them:
                      \* its parity, and whether the capture had enough data
  sent,               \* the most recent frames passed to socket.send
  calls,              \* the most recent sendData calls
  pass                \* outcome per record of the most recent draw pass

vars == <<env, phase, sockets, socket, reconnectInterval, timers, lastSentData,
          detections, inflight, superseded, tick, sent, calls, pass>>

conn == <<sockets, socket, reconnectInterval, timers>>
publ == <<lastSentData, sent, calls, pass>>
detn == <<inflight, superseded, tick>>

\* what the face detector can yield: up to env.len records, one per face it
\* finds in the scene, in any order
DetectionLists ==
  UNION {{l \in [1..n -> env.faces] : \A i, j \in 1..n : l[i] = l[j] => i = j} :
           n \in 0..env.len}

\* Date.now() readings of the run
Clock == IF env.frozen THEN {0} ELSE Times

\* the transport may complete, or refuse, the handshake of attempt i
Accepts(i) == env.free \/ i > env.k
Refuses(i) == env.free \/ i <= env.k

\* a history that puts the newest entry first
Push_Front(w, e) == IF w = << >> THEN <<e>> ELSE <<e, w[Len(w)]>>

\* a history keeps its two most recent entries, the newest last
Push(w, e) == IF w = << >> THEN <<e>> ELSE <<w[Len(w)], e>>

(* ------------------------- connection manager ------------------------- *)
NewSocket == [readyState |-> CONNECTING, opened |-> FALSE]

\* socket.close(): a live object starts closing, a closing or closed one is untouched
Close(s) ==
  IF s.readyState \in {CONNECTING, OPEN} THEN [s EXCEPT !.readyState = CLOSING] ELSE s

\* a setupWebSocket that leaves the old object as it is
SetupSockets_KeepOld == Append(sockets, NewSocket)

\* the sockets after setupWebSocket(): the old object is closed, a new one appended
SetupSockets ==
  Append(IF socket # 0 THEN [sockets EXCEPT ![socket] = Close(@)] ELSE sockets,
         NewSocket)

\* a clearInterval that cancels nothing
ClearInterval_Noop(active, handle) == active

\* clearInterval(handle)
ClearInterval(active, handle) == active \ {handle}

\* onclose: if (!reconnectInterval)
MustSchedule(handle) == handle = 0

\* setInterval returns an id distinct from the active ones
FreshTimer == IF reconnectInterval = 0 THEN 1 ELSE reconnectInterval + 1

\* the globals as the script leaves them, before setup() has got anywhere
Globals ==
  /\ phase = "loading"
  /\ sockets = << >>
  /\ socket = 0
  /\ reconnectInterval = 0
  /\ timers = {}
  /\ lastSentData = Null
  /\ detections = << >>
  /\ inflight = 0
  /\ superseded = 0
  /\ tick = [n |-> 0, ready |-> TRUE]
  /\ sent = << >>
  /\ calls = << >>
  /\ pass = << >>

\* the usual environment: any transport behaviour, one face in the scene, a
\* running clock
Usual ==
  [free |-> TRUE, k |-> 0, faces |-> {Face(30)}, len |-> MaxFaces, frozen |-> FALSE,
   cap |-> MaxInflight, watch |-> FALSE]

Init ==
  /\ env = Usual
  /\ Globals

\* the transport refuses the first k attempts and accepts every later one
InitRefuse ==
  /\ \E k \in 0..MaxRefused : env = [Usual EXCEPT !.free = FALSE, !.k = k]
  /\ Globals

\* any transport behaviour, both faces of the scenario in the scene
InitScene ==
  /\ env = [Usual EXCEPT !.faces = Records]
  /\ Globals

\* a detector that yields a well-formed record and a malformed one of one kind,
\* up to MaxFaces + 1 records per result; the clock does not advance during the run
InitMalformed ==
  /\ \E m \in Malformed :
       env = [Usual EXCEPT !.faces = {Face(30), m}, !.len = MaxFaces + 1, !.frozen = TRUE]
  /\ Globals

\* a slow detector: up to MaxInflight + 1 invocations await their result, and
\* the run records what each tick did; the clock does not advance during the run
InitTicks ==
  /\ env = [Usual EXCEPT !.cap = MaxInflight + 1, !.watch = TRUE, !.frozen = TRUE]
  /\ Globals

\* two faces in front of the camera: results of up to MaxFaces + 1 records; the
\* clock does not advance during the run
InitCrowd ==
  /\ env = [Usual EXCEPT !.faces = Records, !.len = MaxFaces + 1, !.frozen = TRUE]
  /\ Globals

\* setup() returns early: face-api missing or a model failed to load
SetupFail ==
  /\ phase = "loading"
  /\ phase' = "failed"
  /\ UNCHANGED <<env, conn, publ, detections, detn>>

\* setup() past the model loading: setupWebSocket(), then the detection interval
SetupDone ==
  /\ phase = "loading"
  /\ phase' = "running"
  /\ sockets' = SetupSockets
  /\ socket' = Len(sockets')
  /\ UNCHANGED <<env, reconnectInterval, timers, publ, detections, detn>>

\* a setupWebSocket that also forgets the last sent data
TimerFire_ResetSnapshot(t) ==
  /\ t \in timers
  /\ Len(sockets) < MaxSockets
  /\ sockets' = SetupSockets
  /\ socket' = Len(sockets')
  /\ lastSentData' = Null
  /\ UNCHANGED <<env, phase, reconnectInterval, timers, sent, calls, pass, detections, detn>>

\* the interval callback: setupWebSocket()
TimerFire(t) ==
  /\ t \in timers
  /\ Len(sockets) < MaxSockets
  /\ sockets' = SetupSockets
  /\ socket' = Len(sockets')
  /\ UNCHANGED <<env, phase, reconnectInterval, timers, publ, detections, detn>>

\* an onopen that also forgets the last sent data
HandshakeOpen_Forget(i) ==
  /\ i \in 1..Len(sockets)
  /\ sockets[i].readyState = CONNECTING
  /\ Accepts(i)
  /\ sockets' = [sockets EXCEPT ![i].readyState = OPEN, ![i].opened = TRUE]
  /\ timers' = ClearInterval(timers, reconnectInterval)
  /\ lastSentData' = Null
  /\ UNCHANGED <<env, phase, socket, reconnectInterval, sent, calls, pass, detections, detn>>

\* the handshake of object i succeeds: readyState OPEN, then onopen
HandshakeOpen(i) ==
  /\ i \in 1..Len(sockets)
  /\ sockets[i].readyState = CONNECTING
  /\ Accepts(i)
  /\ sockets' = [sockets EXCEPT ![i].readyState = OPEN, ![i].opened = TRUE]
  /\ timers' = ClearInterval(timers, reconnectInterval)
  /\ UNCHANGED <<env, phase, socket, reconnectInterval, publ, detections, detn>>

\* the server starts the closing handshake of an open object: no event yet
ServerClosing(i) ==
  /\ i \in 1..Len(sockets)
  /\ sockets[i].readyState = OPEN
  /\ sockets' = [sockets EXCEPT ![i].readyState = CLOSING]
  /\ UNCHANGED <<env, phase, socket, reconnectInterval, timers, publ, detections, detn>>

\* object i is closed (refused, lost, or its closing handshake ended):
\* readyState CLOSED, onerror (a log line), then onclose
CloseEvent(i) ==
  /\ i \in 1..Len(sockets)
  /\ sockets[i].readyState # CLOSED
  /\ sockets[i].readyState = CONNECTING => Refuses(i)
  /\ sockets' = [sockets EXCEPT ![i].readyState = CLOSED]
  /\ IF MustSchedule(reconnectInterval)
       THEN /\ reconnectInterval' = FreshTimer
            /\ timers' = timers \cup {FreshTimer}
       ELSE UNCHANGED <<reconnectInterval, timers>>
  /\ UNCHANGED <<env, phase, socket, publ, detections, detn>>

(* ------------------------ detection interval -------------------------- *)
\* a readiness test that every state of the capture passes
IsReady_Any(rs) == TRUE

\* video.elt.readyState === 4
IsReady(rs) == rs = HAVE_ENOUGH_DATA

\* the 100 ms callback with the capture in state rs: when the video is ready a
\* detection is started and awaited
DetectionTick(rs) ==
  /\ phase = "running"
  /\ IsReady(rs) => inflight < env.cap
  /\ inflight' = IF IsReady(rs) THEN inflight + 1 ELSE inflight
  /\ tick' = IF env.watch THEN [n |-> 1 - tick.n, ready |-> rs = HAVE_ENOUGH_DATA]
                         ELSE tick
  /\ UNCHANGED <<env, phase, conn, publ, detections, superseded>>

\* the awaited detection of the i-th oldest invocation yields list:
\* detections = resizeResults(list); the invocations started before it are
\* now older than the stored result
DetectionResolve(list, i) ==
  /\ i \in 1..inflight
  /\ inflight' = inflight - 1
  /\ superseded' = IF i <= superseded THEN superseded - 1 ELSE i - 1
  /\ detections' = list
  /\ UNCHANGED <<env, phase, conn, publ, tick>>

\* the awaited detection of the i-th oldest invocation rejects: the catch block logs
DetectionReject(i) ==
  /\ i \in 1..inflight
  /\ inflight' = inflight - 1
  /\ superseded' = IF i <= superseded THEN superseded - 1 ELSE superseded
  /\ UNCHANGED <<env, phase, conn, publ, detections, tick>>

(* ----------------------------- publisher ------------------------------ *)
\* formatDataForTD(detection) with Date.now() = now
FormatDataForTD(d, now) ==
  [timestamp |-> now, gender |-> d.gender, genderConfidence |-> d.genderProbability,
   age |-> d.age, x |-> d.x, y |-> d.y, width |-> d.width, height |-> d.height,
   expressions |-> d.expressions]

\* JSON.stringify(data): the properties in insertion order, undefined ones left out
Stringify(m) ==
  SelectSeq(<< <<"timestamp", m.timestamp>>,
               <<"face.gender", m.gender>>,
               <<"face.genderConfidence", m.genderConfidence>>,
               <<"face.age", m.age>>,
               <<"face.position.x", m.x>>,
               <<"face.position.y", m.y>>,
               <<"face.position.width", m.width>>,
               <<"face.position.height", m.height>>,
               <<"face.expressions", m.expressions>> >>,
            LAMBDA p : p[2] # Undef)

\* a connection check that looks at the object only, not at its readyState
IsOpen_AnySocket(sock, socks) == sock # 0

\* sendData: socket && socket.readyState === WebSocket.OPEN
IsOpen(sock, socks) == sock # 0 /\ socks[sock].readyState = OPEN

\* a comparison that takes every text as changed
Changed_Always(jsonData, last) == TRUE

\* sendData: jsonData !== lastSentData
Changed(jsonData, last) == jsonData # last

\* a send that does not record what it sent
Remember_Stale(jsonData, last) == last

\* sendData: lastSentData = jsonData after socket.send
Remember(jsonData, last) == jsonData

\* a sendData that runs the change filter, and records the text, before it
\* looks at the connection
SendData_FilterFirst(data, st) ==
  LET jsonData == Stringify(data)
      open == IsOpen(socket, sockets)
      fresh == Changed(jsonData, st.last)
      ret  == open /\ fresh
      call == [json |-> jsonData, ret |-> ret, open |-> open]
  IN [last  |-> IF fresh THEN Remember(jsonData, st.last) ELSE st.last,
      sent  |-> IF ret THEN Push(st.sent, [sock |-> socket, json |-> jsonData])
                       ELSE st.sent,
      calls |-> Push(st.calls, call),
      pass  |-> Append(st.pass, IF ret THEN "sent" ELSE "notsent")]

\* sendData(data) on the publisher state st = [last, sent, calls, pass]
SendData(data, st) ==
  LET jsonData == Stringify(data)
      open == IsOpen(socket, sockets)
      ret  == open /\ Changed(jsonData, st.last)
      call == [json |-> jsonData, ret |-> ret, open |-> open]
  IN [last  |-> IF ret THEN Remember(jsonData, st.last) ELSE st.last,
      sent  |-> IF ret THEN Push(st.sent, [sock |-> socket, json |-> jsonData])
                       ELSE st.sent,
      calls |-> Push(st.calls, call),
      pass  |-> Append(st.pass, IF ret THEN "sent" ELSE "notsent")]

\* detections.forEach from index i on; ts[i] is the Date.now() reading for record i
RECURSIVE DrawFrom(_, _, _)
DrawFrom(i, ts, st) ==
  IF i > Len(detections) THEN st
  ELSE LET d == detections[i] IN
    IF d.null \/ d.rect = "none"
      THEN DrawFrom(i + 1, ts, [st EXCEPT !.pass = Append(@, "skipped")])
    ELSE IF d.rect = "nobox"
      THEN [st EXCEPT !.pass = Append(@, "threw")]
    ELSE DrawFrom(i + 1, ts, SendData(FormatDataForTD(d, ts[i]), st))

\* draw(): one pass over detections
Draw(ts) ==
  /\ ts \in [1..Len(detections) -> Clock]
  /\ LET st == DrawFrom(1, ts, [last |-> lastSentData, sent |-> sent,
                                calls |-> calls, pass |-> << >>])
     IN /\ lastSentData' = st.last
        /\ sent' = st.sent
        /\ calls' = st.calls
        /\ pass' = st.pass
  /\ UNCHANGED <<env, phase, conn, detections, detn>>

Next ==
  \/ SetupFail
  \/ SetupDone
  \/ \E t \in timers : TimerFire(t)
  \/ \E i \in 1..Len(sockets) : HandshakeOpen(i)
  \/ \E i \in 1..Len(sockets) : ServerClosing(i)
  \/ \E i \in 1..Len(sockets) : CloseEvent(i)
  \/ \E rs \in VideoStates : DetectionTick(rs)
  \/ \E list \in DetectionLists, i \in 1..inflight : DetectionResolve(list, i)
  \/ \E i \in 1..inflight : DetectionReject(i)
  \/ \E ts \in [1..Len(detections) -> Clock] : Draw(ts)

Spec == Init /\ [][Next]_vars

\* the refusal scenario, and the scene with both faces
SpecRefuse == InitRefuse /\ [][Next]_vars
SpecScene == InitScene /\ [][Next]_vars
SpecCrowd == InitCrowd /\ [][Next]_vars
SpecTicks == InitTicks /\ [][Next]_vars
SpecMalformed == InitMalformed /\ [][Next]_vars

(* ----------------------- observations for the claims ------------------ *)
\* the current connection is Open
ConnOpen == socket # 0 /\ sockets[socket].readyState = OPEN

\* the objects that have reached Open
Opened == {j \in 1..Len(sockets) : sockets[j].opened}

\* this step delivers a close event (onclose runs)
CloseStep ==
  \E j \in 1..Len(sockets) :
    sockets[j].readyState # CLOSED /\ sockets'[j].readyState = CLOSED

\* this step is a setupWebSocket call after the first one
ResetupStep == Len(sockets) >= 1 /\ Len(sockets') > Len(sockets)

\* the two most recent sendData calls, when there are two
HasTwoCalls == Len(calls) = 2
LastCall == calls[Len(calls)]
LastFrame == sent[Len(sent)]

\* the frames this step passes to socket.send, as far as the history holds them
NumSent(p) == Cardinality({k \in 1..Len(p) : p[k] = "sent"})
NewFrames ==
  IF sent' = sent THEN << >>
  ELSE LET n == IF NumSent(pass') < Len(sent') THEN NumSent(pass') ELSE Len(sent')
       IN SubSeq(sent', Len(sent') - n + 1, Len(sent'))

\* the indices of the records of a pass that were transmitted, in list order
SentIdx(p) == SelectSeq([i \in 1..Len(p) |-> i], LAMBDA i : p[i] = "sent")

\* the JSON text of record d stamped now
JsonOf(d, now) == Stringify(FormatDataForTD(d, now))

\* two JSON texts of the same record: equal apart from the timestamp
SameRecord(j1, j2) == Tail(j1) = Tail(j2)
Timestamp(j) == j[1][2]

(* ------------------------------- claims ------------------------------- *)

\* C1 (as stated): after every close event, however many connect/close cycles
\* came before, a retry timer is pending once onclose has run.
C1_RetryPendingAfterEveryClose == [][CloseStep => timers' # {}]_vars

\* C2 (as stated): with a transport that refuses the first k attempts and
\* accepts every later one, the connection that is Open for the first time is
\* attempt k+1, i.e. the retry timer has fired exactly k times.
C2_OpenOnAttemptKPlusOne ==
  (~env.free /\ ConnOpen /\ Opened = {socket}) => socket = env.k + 1

\* C3 (as stated): at most one retry timer is pending, and a close event
\* leaves exactly one timer scheduled, whether or not one was pending before.
C3_ExactlyOneTimerAfterClose ==
  [](Cardinality(timers) <= 1) /\ [][CloseStep => Cardinality(timers') = 1]_vars

\* C4: whenever the current connection is Open, no retry timer is pending.
C4_OpenImpliesNoTimer == ConnOpen => timers = {}

\* C4 witness: a reconnected Open connection, after a timer had been created
C4_Witness == ConnOpen /\ socket > 1 /\ reconnectInterval # 0 /\ timers = {}

\* C5: a step taken while the current connection is not Open transmits no
\* frame, changes lastSentData not at all, and every sendData call of it
\* returns false.
C5_NoSendUnlessOpen ==
  [][~ConnOpen =>
       /\ lastSentData' = lastSentData
       /\ sent' = sent
       /\ (pass' # pass => \A k \in 1..Len(pass') : pass'[k] # "sent")]_vars

\* C5 witness: sendData was called while not Open, returned false, and a
\* snapshot of an earlier transmission is still in place
C5_Witness ==
  /\ calls # << >> /\ ~LastCall.open /\ ~LastCall.ret
  /\ ~ConnOpen /\ pass = <<"notsent">> /\ lastSentData # Null

\* C6 (as stated): the same serialized content presented twice in a row yields
\* true and then false; different content presented afterwards yields true.
C6_TrueThenFalse ==
  HasTwoCalls =>
    /\ calls[1].json = calls[2].json => (calls[1].ret /\ ~calls[2].ret)
    /\ calls[1].json # calls[2].json => calls[2].ret

\* C6 (amended): with the connection Open at each presentation, the very first
\* presentation yields true, content identical to the immediately preceding
\* presentation yields false, and content different from it yields true.
C6_Amended ==
  /\ (Len(calls) = 1 /\ calls[1].open) => calls[1].ret
  /\ (HasTwoCalls /\ calls[1].open /\ calls[2].open)
        => (calls[2].ret <=> calls[1].json # calls[2].json)

\* C6 witness: identical content twice in a row on an Open connection, true then false
C6_Witness ==
  /\ HasTwoCalls /\ calls[1].open /\ calls[2].open
  /\ calls[1].json = calls[2].json /\ calls[1].ret /\ ~calls[2].ret

C8_IdenticalRecordSuppressed ==
  (/\ ConnOpen /\ HasTwoCalls /\ Len(pass) = 1
   /\ calls[1].ret /\ calls[2].open
   /\ LastFrame.sock = socket
   /\ calls[2].ret => sent[1].sock = socket)
  => /\ (SameRecord(calls[1].json, calls[2].json)
          /\ Timestamp(calls[2].json) > Timestamp(calls[1].json)) => pass = <<"notsent">>
     /\ ~SameRecord(calls[1].json, calls[2].json) => pass = <<"sent">>

\* C9 (as stated): content dropped because the connection was not Open and
\* presented again on an Open connection is not transmitted.
C9_DroppedCountsAsSent ==
  (HasTwoCalls /\ ~calls[1].open /\ calls[2].open /\ calls[1].json = calls[2].json)
     => ~calls[2].ret

\* C9 (amended): content dropped because the connection was not Open is not
\* treated as sent: presented again on an Open connection it is transmitted,
\* unless the frame last transmitted has that very content.
C9_Amended ==
  (HasTwoCalls /\ ~calls[1].open /\ calls[2].open /\ calls[1].json = calls[2].json
     /\ ~calls[2].ret)
     => (sent # << >> /\ LastFrame.json = calls[2].json)

\* C9 witness: the dropped content is transmitted once the connection is Open
C9_Witness ==
  /\ HasTwoCalls /\ ~calls[1].open /\ calls[2].open
  /\ calls[1].json = calls[2].json /\ calls[2].ret

\* C10 (as stated): every setupWebSocket call after the first resets
\* lastSentData to absent.
C10_ResetOnReconnect == [][ResetupStep => lastSentData' = Null]_vars

\* C10 (amended): a setupWebSocket call leaves lastSentData as it was, so a
\* message presented on the new Open connection that was not transmitted has
\* the content of the frame last transmitted, on whichever connection.
C10_Amended ==
  /\ [][ResetupStep => lastSentData' = lastSentData]_vars
  /\ []((calls # << >> /\ LastCall.open /\ ~LastCall.ret)
          => (sent # << >> /\ LastFrame.json = LastCall.json))

\* C10 witness: the last frame went out on an earlier connection object; a
\* call made while the connection was down and then a call on the new Open
\* connection presented its content, and the latter was suppressed
C10_Witness ==
  /\ ConnOpen /\ socket > 1
  /\ HasTwoCalls /\ ~calls[1].open /\ calls[2].open /\ ~calls[2].ret
  /\ sent # << >> /\ LastFrame.sock < socket /\ LastFrame.json = calls[2].json
  /\ lastSentData = LastFrame.json

\* C11: at most one connection object is Connecting or Open, and it is the
\* current one, so a replaced object is never Open again; every frame is sent
\* on the object that is current at the time, never on a replaced one.
C11_OneLiveConnection ==
  /\ [](\A j \in 1..Len(sockets) :
          sockets[j].readyState \in {CONNECTING, OPEN} => j = socket)
  /\ [][\A k \in 1..Len(NewFrames) : NewFrames[k].sock = socket']_vars

\* C11 witness: an attempt was replaced while Connecting and is still closing,
\* a frame went out on a replaced object and the next one on the current, Open one
C11_Witness ==
  /\ ConnOpen
  /\ \E j \in 1..(socket - 1) : ~sockets[j].opened /\ sockets[j].readyState = CLOSING
  /\ Len(sent) = 2 /\ sent[1].sock < socket /\ sent[2].sock = socket

\* C12: the frames one publish pass transmits are, in wire order, the frames
\* of the transmitted records in list order: the k-th frame of the pass is
\* the frame of the k-th transmitted record.
C12_FramesInListOrder ==
  [][LET idx == SentIdx(pass')
         n == Len(NewFrames)
     IN \A k \in 1..n :
          SameRecord(NewFrames[k].json, JsonOf(detections[idx[Len(idx) - n + k]], 0))]_vars

\* C12 witness: a pass over two different records has transmitted both, the
\* frame of the first record before the frame of the second
C12_Witness ==
  /\ Len(detections) = 2 /\ detections[1] # detections[2]
  /\ pass = <<"sent", "sent">> /\ Len(sent) = 2
  /\ SameRecord(sent[1].json, JsonOf(detections[1], 0))
  /\ SameRecord(sent[2].json, JsonOf(detections[2], 0))

\* C13: a detection tick that finds the capture not ready is a no-op: it starts
\* no detection, stores no result, and nothing is processed or transmitted.
C13_NotReadyTickIsNoop ==
  [][(tick'.n # tick.n /\ ~tick'.ready)
       => UNCHANGED <<phase, conn, publ, detections, inflight, superseded>>]_vars

\* C13 witness: a tick found the capture not ready after earlier ticks had
\* produced records and a pass had transmitted one
C13_Witness ==
  /\ ~tick.ready /\ detections # << >> /\ sent # << >> /\ inflight = 0

\* C14 (as stated): a malformed record in the detection list does not abort
\* the pass: the pass gets to every record of the list, and every well-formed
\* record, also one after a malformed record, is offered to sendData.
C14_MalformedDoesNotAbort ==
  [][pass' # pass =>
       /\ Len(pass') = Len(detections)
       /\ \A i \in 1..Len(detections) :
            detections[i] \notin Malformed => pass'[i] \in {"sent", "notsent"}]_vars

\* C15: lastSentData is absent while no frame has been transmitted and is
\* otherwise the content of the most recently transmitted frame; a step changes
\* it only by transmitting a frame, and a step of the connection manager
\* (open, error, close, timer firing, setupWebSocket) leaves it unchanged.
C15_LastSentIsLastFrame ==
  /\ [](lastSentData = IF sent = << >> THEN Null ELSE LastFrame.json)
  /\ [][/\ lastSentData' # lastSentData => (NewFrames # << >> /\ NumSent(pass') > 0)
        /\ conn' # conn => lastSentData' = lastSentData]_vars

\* C15 witness: after a frame was transmitted the connection was lost and set
\* up again, a call was suppressed on the new Open connection, and
\* lastSentData is still the content of that frame
C15_Witness ==
  /\ sent # << >> /\ LastFrame.sock < socket /\ ConnOpen
  /\ pass = <<"notsent">> /\ LastCall.open
  /\ lastSentData = LastFrame.json


\* C16 (as stated): a connection attempt is initiated only when there is no
\* connection or the current connection is Closed: no setupWebSocket call,
\* and so no firing of the retry timer, finds the current connection
\* Connecting or Open, and no attempt in progress is aborted.
C16_SetupOnlyWhenClosed ==
  [][Len(sockets') > Len(sockets)
       => (socket = 0 \/ sockets[socket].readyState = CLOSED)]_vars


\* C17 (as stated): at most one detection invocation is in flight at any time.
C17_NoOverlappingDetections == inflight <= 1

\* C18 (as stated): once the result of an invocation has been stored in
\* detections, the result of an invocation started earlier never overwrites
\* it: a step that completes a superseded invocation leaves detections alone.
C18_ResultsInStartOrder == [][superseded' < superseded => detections' = detections]_vars


\* C19 (as stated): the reconnectInterval handle is empty exactly when no retry
\* timer is pending.
C19_HandleEmptyIffNoTimer == (reconnectInterval = 0) <=> (timers = {})

====
